---- MODULE Spec2Model ----
(***************************************************************************)
(* Model of pdsketch/sketch.py: class Sketch.                              *)
(*                                                                         *)
(* A Sketch owns a list of records (point, parent, transportation plan)    *)
(* and a cursor _state = {'index', 'mass'}.  Transportation plans are      *)
(* Python defaultdict objects; they live in a heap so that aliasing        *)
(* between the cursor's mass, the records' plans and a mapping handed to   *)
(* the caller is a property of the code and not of the notation.           *)
(***************************************************************************)
EXTENDS Integers, Sequences, FiniteSets, TLC

\* ------------------------------------------------------------------ bounds
MaxLenD  == 3      \* largest diagram cardinality len(D)
MaxN     == 2      \* largest explicit argument n of the constructor
MaxDeath == 2      \* off-diagonal points are (0,1) .. (0,MaxDeath)
MaxOps   == 2      \* calls made on a constructed object

\* ------------------------------------------------------------ primitives
\* PDPoint([b, d]); equality by value
PDPoint(b, d) == <<b, d>>

\* diagonal = PDPoint([0,0])
diagonal == PDPoint(0, 0)

\* D.isdiagonalpoint(p): birth equals death
isdiagonalpoint(p) == p[1] = p[2]

OffDiagonalPoints == {PDPoint(0, d) : d \in 1..MaxDeath}
DiagonalPoints    == {PDPoint(0, 0), PDPoint(1, 1)}
Points            == DiagonalPoints \cup OffDiagonalPoints

\* Python None and an optional integer
None    == <<>>
Some(k) == <<k>>

\* defaultdict(int): a function whose domain is the set of keys
EmptyDict == [p \in {} |-> 0]

\* d[p] read through the default factory (no key inserted)
Get(d, p) == IF p \in DOMAIN d THEN d[p] ELSE 0

\* d[p] += v on a defaultdict(int): an absent key is created with 0 first
AddTo(d, p, v) == [q \in (DOMAIN d) \cup {p} |-> IF q = p THEN Get(d, p) + v ELSE d[q]]

\* the keys of a dict in iteration order (one fixed order stands for
\* insertion order, which no modelled operation depends on)
PointLess(p, q) == p[1] < q[1] \/ (p[1] = q[1] /\ p[2] < q[2])

RECURSIVE Keys(_)
Keys(S) ==
  IF S = {} THEN <<>>
  ELSE LET m == CHOOSE x \in S : \A y \in S : x = y \/ PointLess(x, y)
       IN  <<m>> \o Keys(S \ {m})

\* sum of the values of a dict
RECURSIVE SumOver(_, _)
SumOver(d, S) ==
  IF S = {} THEN 0
  ELSE LET p == CHOOSE x \in S : TRUE IN d[p] + SumOver(d, S \ {p})

Total(d) == SumOver(d, DOMAIN d)

\* ------------------------------------------------------------------ heap
\* self._sketches holds at most max(MaxN, MaxLenD \div 2) + 1 plans
MaxRecords == (IF MaxN > MaxLenD \div 2 THEN MaxN ELSE MaxLenD \div 2) + 1

\* object identities of the dict objects that can be alive at once: the
\* plans of the records, the cursor's mass, the mapping the caller holds
\* and one dict under construction
Refs == 1..(MaxRecords + 3)

\* a fresh object identity
NewRef(h) == CHOOSE r \in Refs \ DOMAIN h : \A s \in Refs \ DOMAIN h : r <= s

\* allocate a dict object holding v
Alloc(h, v) == [r \in (DOMAIN h) \cup {NewRef(h)} |-> IF r \in DOMAIN h THEN h[r] ELSE v]

\* reference counting: an object nothing refers to is gone
Collect(h, live) == [r \in (DOMAIN h) \cap live |-> h[r]]

\* --------------------------------------------------------------- strings
\* a Python str is a sequence of one-character strings
Whitespace == {" ", "\n"}
Digits     == <<"0", "1", "2", "3", "4", "5", "6", "7", "8", "9">>

\* the least and the greatest member of a non-empty set of integers
Min(S) == CHOOSE x \in S : \A y \in S : x <= y
Max(S) == CHOOSE x \in S : \A y \in S : x >= y

\* s[n:]
Drop(s, n) == SubSeq(s, n + 1, Len(s))

\* the positions (from 1) at or after `from` where t occurs in s
Occurrences(s, t, from) ==
  {k \in from..(Len(s) - Len(t) + 1) : SubSeq(s, k, k + Len(t) - 1) = t}

\* s.find(c): 0-based position of the first occurrence of c, or -1
Find(s, c) ==
  LET occ == Occurrences(s, <<c>>, 1) IN IF occ = {} THEN -1 ELSE Min(occ) - 1

\* s[a:b] for a >= 0; a negative b counts from the end
Slice(s, a, b) ==
  LET stop == IF b < 0 THEN (IF Len(s) + b < 0 THEN 0 ELSE Len(s) + b)
              ELSE (IF b > Len(s) THEN Len(s) ELSE b)
  IN  SubSeq(s, a + 1, stop)

\* s.split(sep) for a non-empty separator: cut at each occurrence, scanning
\* from the left
RECURSIVE SplitFrom(_, _, _)
SplitFrom(s, sep, from) ==
  LET occ == Occurrences(s, sep, from)
  IN  IF occ = {} THEN <<SubSeq(s, from, Len(s))>>
      ELSE <<SubSeq(s, from, Min(occ) - 1)>> \o SplitFrom(s, sep, Min(occ) + Len(sep))

Split(s, sep) == SplitFrom(s, sep, 1)

\* s.split(): the maximal runs of non-whitespace characters
RECURSIVE SplitWSFrom(_, _)
SplitWSFrom(s, from) ==
  LET black == {k \in from..Len(s) : s[k] \notin Whitespace}
  IN  IF black = {} THEN <<>>
      ELSE LET b == Min(black)
               white == {k \in b..Len(s) : s[k] \in Whitespace}
               e == IF white = {} THEN Len(s) + 1 ELSE Min(white)
           IN  <<SubSeq(s, b, e - 1)>> \o SplitWSFrom(s, e)

SplitWS(s) == SplitWSFrom(s, 1)

\* s.rstrip() and s.strip()
RStrip(s) ==
  LET black == {k \in 1..Len(s) : s[k] \notin Whitespace}
  IN  IF black = {} THEN <<>> ELSE SubSeq(s, 1, Max(black))

Strip(s) ==
  LET black == {k \in 1..Len(s) : s[k] \notin Whitespace}
  IN  IF black = {} THEN <<>> ELSE SubSeq(s, Min(black), Max(black))

\* sep.join(parts)
RECURSIVE Join(_, _)
Join(sep, parts) ==
  IF parts = <<>> THEN <<>>
  ELSE IF Len(parts) = 1 THEN parts[1]
  ELSE parts[1] \o sep \o Join(sep, Tail(parts))

\* --------------------------------------------------------------- numbers
IsDigit(c) == \E i \in 1..10 : Digits[i] = c

DigitVal(c) == (CHOOSE i \in 1..10 : Digits[i] = c) - 1

\* str(n) for a natural n
RECURSIVE NatStr(_)
NatStr(n) == IF n < 10 THEN <<Digits[n + 1]>> ELSE NatStr(n \div 10) \o <<Digits[(n % 10) + 1]>>

\* str(k) for an int k
IntStr(k) == IF k < 0 THEN <<"-">> \o NatStr(0 - k) ELSE NatStr(k)

\* str(x) for a float x with no fractional part, as point coordinates are
FloatStr(x) == IntStr(x) \o <<".", "0">>

AllDigits(s) == \A i \in 1..Len(s) : IsDigit(s[i])

RECURSIVE NatVal(_)
NatVal(s) == IF s = <<>> THEN 0 ELSE 10 * NatVal(SubSeq(s, 1, Len(s) - 1)) + DigitVal(s[Len(s)])

\* an exception or a value
Raise(e) == [exc |-> e, val |-> None]
Ok(v)    == [exc |-> "none", val |-> v]

Unsigned(s) == IF s # <<>> /\ Head(s) \in {"-", "+"} THEN Tail(s) ELSE s
Signed(s, v) == IF s # <<>> /\ Head(s) = "-" THEN 0 - v ELSE v

\* an int literal: an optional sign, one or more digits
IntLiteral(t) ==
  IF Unsigned(t) # <<>> /\ AllDigits(Unsigned(t))
  THEN Ok(Signed(t, NatVal(Unsigned(t))))
  ELSE Raise("ValueError")

\* int(s): surrounding whitespace is ignored
int(s) == IntLiteral(Strip(s))

\* a float literal whose unsigned part u has its point at 0-based position dot
\* (-1: no point).  The files of the model hold no literal with a non-zero
\* fraction, so the value is the integer part.
FloatParts(t, u, dot) ==
  LET ip == IF dot < 0 THEN u ELSE SubSeq(u, 1, dot)
      fp == IF dot < 0 THEN <<>> ELSE Drop(u, dot + 1)
  IN  IF AllDigits(ip) /\ AllDigits(fp) /\ (ip # <<>> \/ fp # <<>>)
      THEN Ok(Signed(t, NatVal(ip)))
      ELSE Raise("ValueError")

FloatLiteral(t) == FloatParts(t, Unsigned(t), Find(Unsigned(t), "."))

\* float(s): surrounding whitespace is ignored
float(s) == FloatLiteral(Strip(s))

\* ------------------------------------------------------------ text forms
\* str(p) of a PDPoint: its coordinates separated by a blank
RECURSIVE PointStr(_)
PointStr(p) ==
  IF p = <<>> THEN <<>>
  ELSE IF Len(p) = 1 THEN FloatStr(p[1])
  ELSE FloatStr(p[1]) \o <<" ">> \o PointStr(Tail(p))

\* str(parent): an int or None
ParentStr(parent) == IF parent = None THEN <<"N", "o", "n", "e">> ELSE IntStr(parent[1])

RECURSIVE EntryStrs(_, _)
EntryStrs(d, keys) ==
  IF keys = <<>> THEN <<>>
  ELSE <<PointStr(Head(keys)) \o <<":", " ">> \o IntStr(d[Head(keys)])>> \o EntryStrs(d, Tail(keys))

\* str(d) of a defaultdict(int)
DictStr(d) ==
  <<"d", "e", "f", "a", "u", "l", "t", "d", "i", "c", "t", "(", "<", "c", "l", "a", "s", "s", " ", "'", "i", "n", "t", "'", ">", ",", " ", "{">>
    \o Join(<<",", " ">>, EntryStrs(d, Keys(DOMAIN d)))
    \o <<"}", ")">>

\* ----------------------------------------------------------------- state
VARIABLES
  pc,         \* "new", "building" (inside __init__), "ready", "failed"
  D,          \* __init__'s D, a sequence of points
  n,          \* __init__'s n after line 26
  i,          \* __init__'s i
  mass,       \* __init__'s local defaultdict mass (it never escapes)
  gen,        \* the steps the generator `sketches` has yielded so far
  _sketches,  \* self._sketches: records [point, parent, plan], plan a dict object
  _state,     \* self._state: [index, mass], mass a dict object
  heap,       \* the dict objects alive, by identity
  file,       \* the text file: None, or Some(its lines)
  held,       \* the mapping the caller got from its last integer read
  last,       \* the last call made on the object and how it ended
  nops        \* calls made so far

vars == <<pc, D, n, i, mass, gen, _sketches, _state, heap, file, held, last, nops>>

\* the dict objects something still refers to
Live(sk, st, hd) ==
  {sk[k].plan : k \in 1..Len(sk)} \cup {st.mass} \cup {hd[k] : k \in 1..Len(hd)}

Call(op, arg, exc, val) == [op |-> op, arg |-> arg, exc |-> exc, val |-> val]

\* ---------------------------------------------------- external collaborators
\* the diagrams of the model: distinct points; D[-1] is the last element
Diagrams ==
  {<<>>} \cup
  UNION {{Keys(S \ {s}) \o <<s>> : s \in S} :
           S \in {T \in SUBSET Points : T # {} /\ Cardinality(T) <= MaxLenD}}

\* the diagrams of the sketches that are navigated, saved and loaded: a
\* diagonal seed with two off-diagonal points, with an off-diagonal and a
\* diagonal point, with one off-diagonal point, an off-diagonal seed, and
\* single diagonal points
Scenarios ==
  { <<PDPoint(0, 1), PDPoint(0, 2), PDPoint(0, 0)>>,
    <<PDPoint(0, 1), PDPoint(1, 1), PDPoint(0, 0)>>,
    <<PDPoint(0, 1), PDPoint(0, 0)>>,
    <<PDPoint(0, 0), PDPoint(0, 1)>>,
    <<PDPoint(0, 0)>>,
    <<PDPoint(1, 1)>> }

\* the values of the argument n
Counts == {None} \cup {Some(k) : k \in 0..MaxN}

Range(s) == {s[k] : k \in 1..Len(s)}

\* greedy(M=D, seed=D[-1], nbrconstant=2, tree=True, gettransportplan=True):
\* the steps (point, parent, plan) the next pull may yield.  The first step is
\* the seed carrying all the mass; a later step selects a point not selected
\* before, names an earlier step as its parent, and either moves one unit of
\* mass from the parent to the new point or moves nothing.
GreedySteps(Dv, g) ==
  IF g = <<>>
  THEN {<<Dv[Len(Dv)], None, (Dv[Len(Dv)] :> Len(Dv))>>}
  ELSE UNION {{<<p, Some(j), EmptyDict>>, <<p, Some(j), (p :> 1) @@ (g[j + 1][1] :> -1)>>} :
                <<p, j>> \in (Range(Dv) \ {g[k][1] : k \in 1..Len(g)}) \X (0..(Len(g) - 1))}

\* the generator is never found exhausted after its last point
ExhaustedLate(Dv, g) == Len(g) > Len(Dv)

\* next(sketches) raises StopIteration once every point of D was yielded
Exhausted(Dv, g) == Len(g) >= Len(Dv)

\* the object d itself instead of a copy of it
DefaultDictAlias(h, d) == [ref |-> d, heap |-> h]

\* defaultdict(int, d): a new dict object holding the items of the object d
DefaultDict(h, d) == [ref |-> NewRef(h), heap |-> Alloc(h, h[d])]

\* the mass refreshed, the index left where it is
ResetStateKeepIndex(sk, st, h) ==
  LET m == DefaultDict(h, sk[1].plan)
  IN  [st |-> [index |-> st.index, mass |-> m.ref], heap |-> m.heap]

\* lines 51, 118-119 and 130-131:
\*   self._state['index'] = 0
\*   self._state['mass'] = defaultdict(int, self._sketches[0][2])
ResetState(sk, st, h) ==
  LET m == DefaultDict(h, sk[1].plan)
  IN  [st |-> [index |-> 0, mass |-> m.ref], heap |-> m.heap]

\* ------------------------------------------------------------- __init__
\* Python's a // b
FloorDiv(a, b) == a \div b

\* the diagonal keys of the step plan are left out
RECURSIVE CoalesceOffDiagonal(_, _, _)
CoalesceOffDiagonal(m, plan, keys) ==
  IF keys = <<>> THEN m
  ELSE LET p == Head(keys)
       IN  CoalesceOffDiagonal(IF isdiagonalpoint(p) THEN m ELSE AddTo(m, p, plan[p]),
                               plan, Tail(keys))

\* lines 39-43: coalesce one step plan into mass
RECURSIVE Coalesce(_, _, _)
Coalesce(m, plan, keys) ==
  IF keys = <<>> THEN m
  ELSE LET p == Head(keys)
       IN  Coalesce(IF isdiagonalpoint(p) THEN AddTo(m, diagonal, plan[p])
                                         ELSE AddTo(m, p, plan[p]),
                    plan, Tail(keys))

\* line 25-26: `if not n` holds for None and for 0
DefaultN(Dv, nv) == IF nv = None \/ nv[1] = 0 THEN FloorDiv(Len(Dv), 2) ELSE nv[1]

\* the loop stops one acceptance early, though not before the first
LoopsBelow(k, nv) == k = 0 \/ k < nv

\* line 37: while i <= n
Loops(k, nv) == k <= nv

\* every step becomes a record
AcceptsAll(k, point) == TRUE

\* line 44: the step becomes a record
Accepts(k, point) == k = 0 \/ ~isdiagonalpoint(point)

\* -(len(D)//2)
PrechargeFloor(Dv) == 0 - FloorDiv(Len(Dv), 2)

\* line 35: -len(D)//2 is (-len(D)) // 2
Precharge(Dv) == FloorDiv(0 - Len(Dv), 2)

Init ==
  /\ pc = "new"
  /\ D = <<>>
  /\ n = 0
  /\ i = 0
  /\ mass = EmptyDict
  /\ gen = <<>>
  /\ _sketches = <<>>
  /\ _state = [index |-> 0, mass |-> 0]
  /\ heap = [r \in {} |-> EmptyDict]
  /\ file = None
  /\ held = None
  /\ last = Call("none", None, "none", None)
  /\ nops = 0

\* Sketch(D, n), lines 25-36, for a non-empty diagram
Construct(Dv, nv) ==
  /\ pc = "new"
  /\ Dv # <<>>
  /\ pc' = "building"
  /\ D' = Dv
  /\ n' = DefaultN(Dv, nv)
  /\ mass' = (diagonal :> Precharge(Dv))
  /\ last' = Call("init", <<Dv, nv>>, "none", None)
  /\ UNCHANGED <<i, gen, _sketches, _state, heap, file, held, nops>>

\* Sketch(D, n) for an empty diagram: D[-1] on line 27 raises
ConstructEmpty(nv) ==
  /\ pc = "new"
  /\ pc' = "failed"
  /\ n' = DefaultN(<<>>, nv)
  /\ last' = Call("init", <<<<>>, nv>>, "IndexError", None)
  /\ UNCHANGED <<D, i, mass, gen, _sketches, _state, heap, file, held, nops>>

\* one iteration of the loop of lines 37-49
BuildStep ==
  /\ pc = "building"
  /\ Loops(i, n)
  /\ ~Exhausted(D, gen)
  /\ \E curr_sketch \in GreedySteps(D, gen) :
       LET m1 == Coalesce(mass, curr_sketch[3], Keys(DOMAIN curr_sketch[3]))
           h1 == Alloc(heap, m1)
       IN  /\ gen' = Append(gen, curr_sketch)
           /\ IF Accepts(i, curr_sketch[1])
              THEN /\ _sketches' = Append(_sketches,
                          [point |-> curr_sketch[1], parent |-> curr_sketch[2], plan |-> NewRef(heap)])
                   /\ heap' = h1
                   /\ mass' = EmptyDict
                   /\ i' = i + 1
              ELSE /\ mass' = m1
                   /\ UNCHANGED <<_sketches, heap, i>>
  /\ UNCHANGED <<pc, D, n, _state, file, held, last, nops>>

\* line 38 when the generator has no step left: StopIteration leaves __init__
BuildExhausted ==
  /\ pc = "building"
  /\ Loops(i, n)
  /\ Exhausted(D, gen)
  /\ pc' = "failed"
  /\ _sketches' = <<>>
  /\ heap' = [r \in {} |-> EmptyDict]
  /\ last' = [last EXCEPT !.exc = "StopIteration"]
  /\ UNCHANGED <<D, n, i, mass, gen, _state, file, held, nops>>

\* line 51
BuildFinish ==
  /\ pc = "building"
  /\ ~Loops(i, n)
  /\ pc' = "ready"
  /\ LET r == ResetState(_sketches, _state, heap)
     IN  _state' = r.st /\ heap' = r.heap
  \* __init__ returns: its locals and the generator are gone
  /\ D' = <<>>
  /\ n' = 0
  /\ i' = 0
  /\ mass' = EmptyDict
  /\ gen' = <<>>
  /\ UNCHANGED <<_sketches, file, held, last, nops>>

\* ------------------------------------------------------------- navigation
\* list indexing self._sketches[k]: valid for -len <= k < len
InList(sk, k) == 0 - Len(sk) <= k /\ k < Len(sk)

ListAt(sk, k) == IF k >= 0 THEN sk[k + 1] ELSE sk[Len(sk) + k + 1]

\* the entries are overwritten: self._state['mass'][p] = sign*transport[p]
RECURSIVE MergeAssign(_, _, _, _, _)
MergeAssign(h, target, source, keys, sign) ==
  IF keys = <<>> THEN h
  ELSE MergeAssign([h EXCEPT ![target] = (Head(keys) :> sign * h[source][Head(keys)]) @@ h[target]],
                   target, source, Tail(keys), sign)

\* lines 85-86: for p in transport: self._state['mass'][p] += sign*transport[p]
\* (target and source are dict objects; every read goes to the heap)
RECURSIVE Merge(_, _, _, _, _)
Merge(h, target, source, keys, sign) ==
  IF keys = <<>> THEN h
  ELSE Merge([h EXCEPT ![target] = AddTo(h[target], Head(keys), sign * h[source][Head(keys)])],
             target, source, Tail(keys), sign)

\* the plan is taken at the index the cursor is leaving
_updateStateLeaving(sk, st, h, sign) ==
  LET st1 == [st EXCEPT !.index = st.index + sign]
  IN  IF ~InList(sk, st1.index) \/ ~InList(sk, st.index)
      THEN [exc |-> "IndexError", st |-> st1, heap |-> h]
      ELSE LET transport == ListAt(sk, st.index).plan
           IN  [exc |-> "none", st |-> st1,
                heap |-> Merge(h, st1.mass, transport, Keys(DOMAIN h[transport]), sign)]

\* _updateState(sign), lines 83-86
_updateState(sk, st, h, sign) ==
  LET st1 == [st EXCEPT !.index = st.index + sign]
  IN  IF ~InList(sk, st1.index)
      THEN [exc |-> "IndexError", st |-> st1, heap |-> h]
      ELSE LET transport == ListAt(sk, st1.index).plan
           IN  [exc |-> "none", st |-> st1,
                heap |-> Merge(h, st1.mass, transport, Keys(DOMAIN h[transport]), sign)]

\* the loop of lines 65-66; path lists the index after each call of line 66
RECURSIVE MoveTo(_, _, _, _, _)

\* the outcome m of the rest of the loop, after a call that led to index k
Stepped(k, m) == [m EXCEPT !.path = <<k>> \o @]

\* line 66 has run with outcome r
Moved(r, sk, index, sign) ==
  IF r.exc # "none"
  THEN [exc |-> r.exc, st |-> r.st, heap |-> r.heap, path |-> <<r.st.index>>]
  ELSE Stepped(r.st.index, MoveTo(sk, r.st, r.heap, index, sign))

MoveTo(sk, st, h, index, sign) ==
  IF index = st.index THEN [exc |-> "none", st |-> st, heap |-> h, path |-> <<>>]
  ELSE Moved(_updateState(sk, st, h, sign), sk, index, sign)

\* every movement goes up
GetItemUpward(sk, st, h, index) == MoveTo(sk, st, h, index, 1)

\* __getitem__(index) for an int, lines 64-67
GetItem(sk, st, h, index) == MoveTo(sk, st, h, index, IF index >= st.index THEN 1 ELSE -1)

\* the indices a caller tries: every position, Python's negative ones and
\* one step outside on either side
Indices(sk) == (0 - (Len(sk) + 1))..(Len(sk) + 1)

AllIndices == (0 - (MaxRecords + 1))..(MaxRecords + 1)

\* line 67: the cursor's mass is returned unless an exception left the loop
Returned(r, index) ==
  /\ _state' = r.st
  /\ held' = IF r.exc = "none" THEN Some(r.st.mass) ELSE held
  /\ heap' = Collect(r.heap, Live(_sketches, r.st, IF r.exc = "none" THEN Some(r.st.mass) ELSE held))
  /\ last' = Call("read", Some(index), r.exc, None)

\* sketch[index]
Read(index) ==
  /\ pc = "ready"
  /\ nops < MaxOps
  /\ index \in Indices(_sketches)
  /\ Returned(GetItem(_sketches, _state, heap, index), index)
  /\ nops' = nops + 1
  /\ UNCHANGED <<pc, D, n, i, mass, gen, _sketches, file>>

\* a range that includes stop
RECURSIVE PyRangeInclusive(_, _, _)
PyRangeInclusive(start, stop, step) ==
  IF (step > 0 /\ start > stop) \/ (step < 0 /\ start < stop) THEN <<>>
  ELSE <<start>> \o PyRangeInclusive(start + step, stop, step)

\* range(start, stop, step) as the list of its members, step # 0
RECURSIVE PyRange(_, _, _)
PyRange(start, stop, step) ==
  IF (step > 0 /\ start >= stop) \/ (step < 0 /\ start <= stop) THEN <<>>
  ELSE <<start>> \o PyRange(start + step, stop, step)

\* (self._sketches[i] for i in indices), drained by the caller
RECURSIVE Drain(_, _)
Drain(sk, indices) ==
  IF indices = <<>> THEN [exc |-> "none", val |-> <<>>]
  ELSE IF ~InList(sk, Head(indices)) THEN [exc |-> "IndexError", val |-> <<>>]
  ELSE LET rest == Drain(sk, Tail(indices))
       IN  [exc |-> rest.exc, val |-> <<ListAt(sk, Head(indices))>> \o rest.val]

\* __getitem__(index) for a slice, lines 58-61
GetSlice(sk, start, stop, step) ==
  IF start = None \/ stop = None \/ step = None THEN [exc |-> "TypeError", val |-> <<>>]
  ELSE IF step[1] = 0 THEN [exc |-> "ValueError", val |-> <<>>]
  ELSE Drain(sk, PyRange(start[1], stop[1], step[1]))

\* the slices a caller tries: forward, strided, backward, past the end,
\* and with a bound or the step left out
Slices ==
  { <<Some(0), Some(2), Some(1)>>, <<Some(0), Some(3), Some(2)>>, <<Some(1), Some(-1), Some(-1)>>,
    <<None, Some(1), Some(1)>>, <<Some(0), None, Some(1)>>, <<Some(0), Some(1), None>> }

\* sketch[start:stop:step], the generator consumed to its end
ReadSlice(start, stop, step) ==
  /\ pc = "ready"
  /\ nops < MaxOps
  /\ LET r == GetSlice(_sketches, start, stop, step)
     IN  last' = Call("slice", <<start, stop, step>>, r.exc, r.val)
  /\ nops' = nops + 1
  /\ UNCHANGED <<pc, D, n, i, mass, gen, _sketches, _state, heap, file, held>>

\* ---------------------------------------------------------- serialization
\* line 134: "; ".join(str(self._sketches[i][j]) for j in range(3)) + "\n"
LineOf(h, rec) ==
  Join(<<";", " ">>, <<PointStr(rec.point), ParentStr(rec.parent), DictStr(h[rec.plan])>>)
    \o <<"\n">>

RECURSIVE LinesOf(_, _)
LinesOf(h, sk) == IF sk = <<>> THEN <<>> ELSE <<LineOf(h, Head(sk))>> \o LinesOf(h, Tail(sk))

\* savetofile(filename), lines 130-134
savetofile ==
  /\ pc = "ready"
  /\ nops < MaxOps
  /\ IF _sketches = <<>>
     THEN \* line 131 raises after line 130 has run
          /\ _state' = [_state EXCEPT !.index = 0]
          /\ last' = Call("save", None, "IndexError", None)
          /\ UNCHANGED <<heap, file>>
     ELSE LET r == ResetState(_sketches, _state, heap)
          IN  /\ _state' = r.st
              /\ heap' = Collect(r.heap, Live(_sketches, r.st, held))
              /\ file' = Some(LinesOf(heap, _sketches))
              /\ last' = Call("save", None, "none", None)
  /\ nops' = nops + 1
  /\ UNCHANGED <<pc, D, n, i, mass, gen, _sketches, held>>

\* a list comprehension's next element x in front of the rest
Cons(x, rest) ==
  IF x.exc # "none" THEN x
  ELSE IF rest.exc # "none" THEN rest
  ELSE Ok(<<x.val>> \o rest.val)

\* [float(p) for p in tokens]
RECURSIVE Floats(_)
Floats(tokens) ==
  IF tokens = <<>> THEN Ok(<<>>) ELSE Cons(float(Head(tokens)), Floats(Tail(tokens)))

\* the loop of lines 96-98 of _dict
RECURSIVE DictEntries(_, _)

\* line 98: transport[PDPoint(...)] = int(...), the right-hand side first
DictStore(transport, value, key, rest) ==
  IF value.exc # "none" THEN value
  ELSE IF key.exc # "none" THEN key
  ELSE DictEntries([p \in (DOMAIN transport) \cup {key.val} |->
                      IF p = key.val THEN value.val ELSE transport[p]],
                   rest)

\* lines 97-98 for one entry split into key_value
DictEntry(transport, key_value, rest) ==
  IF Len(key_value) < 2 THEN Raise("IndexError")
  ELSE DictStore(transport, int(key_value[2]), Floats(SplitWS(key_value[1])), rest)

DictEntries(transport, dict_entries) ==
  IF dict_entries = <<>> THEN Ok(transport)
  ELSE DictEntry(transport, Split(Head(dict_entries), <<":", " ">>), Tail(dict_entries))

\* _dict(str_transport), lines 93-99
_dict(str_transport) ==
  DictEntries(EmptyDict,
              Split(Slice(str_transport, Find(str_transport, "{") + 1, Find(str_transport, "}")),
                    <<",", " ">>))

\* line 115: int(elements[1]) if elements[1] != 'None' else None
SomeInt(k) == IF k.exc # "none" THEN k ELSE Ok(Some(k.val))

ParentOf(elements) ==
  IF Len(elements) < 2 THEN Raise("IndexError")
  ELSE IF elements[2] = <<"N", "o", "n", "e">> THEN Ok(None)
  ELSE SomeInt(int(elements[2]))

\* line 116: self._dict(elements[2])
TransportOf(elements) == IF Len(elements) < 3 THEN Raise("IndexError") ELSE _dict(elements[3])

\* lines 114-116 in order: the first exception wins
Fields(point, parent, transport) ==
  IF point.exc # "none" THEN point
  ELSE IF parent.exc # "none" THEN parent
  ELSE IF transport.exc # "none" THEN transport
  ELSE Ok([point |-> point.val, parent |-> parent.val, transport |-> transport.val])

ParseFields(elements) ==
  Fields(Floats(SplitWS(elements[1])), ParentOf(elements), TransportOf(elements))

\* lines 113-116: one line of the file as (point, parent, transport)
ParseLine(sketch) == ParseFields(Split(RStrip(sketch), <<";", " ">>))

\* the loop of lines 112-117: records are appended until a line fails
RECURSIVE LoadLines(_, _, _)

\* line 117 for the parsed line r
LoadLine(r, rest, sk, h) ==
  IF r.exc # "none" THEN [exc |-> r.exc, sk |-> sk, heap |-> h]
  ELSE LoadLines(rest,
                 Append(sk, [point |-> r.val.point, parent |-> r.val.parent, plan |-> NewRef(h)]),
                 Alloc(h, r.val.transport))

LoadLines(lines, sk, h) ==
  IF lines = <<>> THEN [exc |-> "none", sk |-> sk, heap |-> h]
  ELSE LoadLine(ParseLine(Head(lines)), Tail(lines), sk, h)

\* lines 118-119 once the loop has ended with r
Loaded(r) ==
  IF r.exc # "none"
  THEN /\ _sketches' = r.sk
       /\ heap' = r.heap
       /\ last' = Call("load", None, r.exc, None)
       /\ UNCHANGED _state
  ELSE IF r.sk = <<>>
  THEN \* line 119 raises after line 118 has run
       /\ _sketches' = r.sk
       /\ heap' = r.heap
       /\ _state' = [_state EXCEPT !.index = 0]
       /\ last' = Call("load", None, "IndexError", None)
  ELSE LET z == ResetState(r.sk, _state, r.heap)
       IN  /\ _sketches' = r.sk
           /\ _state' = z.st
           /\ heap' = Collect(z.heap, Live(r.sk, z.st, held))
           /\ last' = Call("load", None, "none", None)

\* loadfromfile(filename), lines 110-119
loadfromfile ==
  /\ pc = "ready"
  /\ nops < MaxOps
  /\ IF file = None
     THEN \* line 110 has run, open() raises
          /\ _sketches' = <<>>
          /\ heap' = Collect(heap, Live(<<>>, _state, held))
          /\ last' = Call("load", None, "FileNotFoundError", None)
          /\ UNCHANGED _state
     ELSE Loaded(LoadLines(file[1], <<>>, Collect(heap, Live(<<>>, _state, held))))
  /\ nops' = nops + 1
  /\ UNCHANGED <<pc, D, n, i, mass, gen, file, held>>

\* ------------------------------------------------- the file's other writers
Remove(s, chars) == SelectSeq(s, LAMBDA c : c \notin chars)

\* ways a line of a saved file gets damaged
Damaged(line) ==
  LET elements == Split(RStrip(line), <<";", " ">>)
  IN  { Join(<<";", " ">>, SubSeq(elements, 1, 2)) \o <<"\n">>,              \* a field is missing
        Join(<<";", " ">>, <<elements[1], <<"x">>, elements[3]>>) \o <<"\n">>, \* not a number
        Remove(line, {"{", "}"}) }                                            \* no braces

\* the file is edited between a save and a load
Corrupt ==
  /\ pc = "ready"
  /\ file # None
  /\ last.op = "save" /\ last.exc = "none"
  /\ \/ file' = Some(<<>>)
     \/ \E k \in 1..Len(file[1]) : \E bad \in Damaged(file[1][k]) :
          file' = Some([file[1] EXCEPT ![k] = bad])
  /\ last' = Call("edit", None, "none", None)
  /\ UNCHANGED <<pc, D, n, i, mass, gen, _sketches, _state, heap, held, nops>>

\* Sketch(D, n) for D among diagrams, up to the return of __init__
Build(diagrams) ==
  \/ \E Dv \in diagrams, nv \in Counts : Construct(Dv, nv)
  \/ \E nv \in Counts : ConstructEmpty(nv)
  \/ BuildStep
  \/ BuildExhausted
  \/ BuildFinish

\* construction from every diagram of the model
SpecBuild == Init /\ [][Build(Diagrams)]_vars

\* the same, the loop of __init__ and its return not stalling
SpecBuildFair == SpecBuild /\ WF_vars(BuildStep) /\ WF_vars(BuildExhausted) /\ WF_vars(BuildFinish)

\* a sketch of one of the scenarios is constructed and then used
Next ==
  \/ Build(Scenarios)
  \/ \E index \in AllIndices : Read(index)
  \/ \E slice \in Slices : ReadSlice(slice[1], slice[2], slice[3])
  \/ savetofile
  \/ loadfromfile
  \/ Corrupt

Spec == Init /\ [][Next]_vars

\* ----------------------------------------------------------------- claims
\* the records with their plans read out of the heap
RecordValues(sk, h) ==
  [k \in 1..Len(sk) |-> [point |-> sk[k].point, parent |-> sk[k].parent, plan |-> h[sk[k].plan]]]

\* the mass of point p summed over the plans of the first k records
RECURSIVE SumPlans(_, _, _, _)
SumPlans(sk, h, k, p) ==
  IF k = 0 THEN 0 ELSE Get(h[sk[k].plan], p) + SumPlans(sk, h, k - 1, p)

\* the cursor's mass is the sum of deltaPlan(0) .. deltaPlan(currentIndex)
CursorInv ==
  /\ _state.index \in 0..(Len(_sketches) - 1)
  /\ \A p \in Points \cup DOMAIN heap[_state.mass] :
       Get(heap[_state.mass], p) = SumPlans(_sketches, heap, _state.index + 1, p)

\* the step is an integer read with an index in [0, n]
InRangeRead ==
  /\ nops' = nops + 1
  /\ last'.op = "read"
  /\ last'.arg[1] \in 0..(Len(_sketches) - 1)

\* C1: an integer read with an index in [0, n] made while the cursor's
\* cumulative mass is the sum of deltaPlan(0..currentIndex) leaves it the sum
\* of deltaPlan(0..currentIndex) at the new index, so that no sequence of
\* such reads on a built or loaded sequence breaks the cursor invariant.
CursorInvariantKept == [][(InRangeRead /\ CursorInv) => CursorInv']_vars

\* every record after record 0 has a plan summing to 0
ZeroSumDeltas == \A k \in 2..Len(_sketches) : Total(heap[_sketches[k].plan]) = 0

\* C2: when records 1..n each sum to 0 and the cursor holds the sum of
\* deltaPlan(0..currentIndex), whose masses then sum to what record 0's plan
\* sums to (|D|), the mapping returned by an integer read with an index in
\* [0, n] sums to |D| again.
MassConserved ==
  [][(InRangeRead /\ ZeroSumDeltas /\ CursorInv)
      => Total(heap'[_state'.mass]) = Total(heap[_sketches[1].plan])]_vars

\* C3: an integer read with an index outside [0, n], above n or negative,
\* ends in a bounds error (IndexError) and returns no mapping.
BoundsError ==
  (pc = "ready" /\ last.op = "read" /\ last.arg[1] \notin 0..(Len(_sketches) - 1))
    => last.exc = "IndexError"

\* C4: a loadfromfile that directly follows a successful savetofile succeeds
\* and leaves the list of (point, parent, deltaPlan) triples that was saved,
\* whatever the parents and the number of entries of the plans.
RoundTrip ==
  [][(nops' = nops + 1 /\ last.op = "save" /\ last.exc = "none" /\ last'.op = "load")
      => (last'.exc = "none"
          /\ RecordValues(_sketches', heap') = RecordValues(_sketches, heap))]_vars

\* C5: a sketch constructed with n = 0 passed explicitly has exactly one
\* record.
ExplicitZeroGivesOneRecord ==
  (pc = "ready" /\ last.op = "init" /\ last.arg[2] = Some(0)) => Len(_sketches) = 1

\* the step is sketch[0] as the first call on a constructed sketch, whose
\* diagram is the first argument of the constructor call
FirstReadOfZero ==
  /\ pc = "ready"
  /\ last.op = "init"
  /\ last' = Call("read", Some(0), "none", None)

FailedLoadLeavesNothing ==
  [][(nops' = nops + 1 /\ last'.op = "load" /\ last'.exc # "none"
        /\ file # None /\ file[1] # <<>>)
      => (/\ _sketches' = <<>>
          /\ ~(/\ _state'.index = _state.index
               /\ heap'[_state'.mass] = heap[_state.mass]))]_vars

RecordsImmutable ==
  /\ [](pc = "ready" => \A k \in 1..Len(_sketches) : _sketches[k].plan # _state.mass)
  /\ [][(nops' = nops + 1 /\ last'.op \in {"read", "slice"})
         => (/\ _sketches' = _sketches
             /\ RecordValues(_sketches', heap') = RecordValues(_sketches, heap))]_vars

\* an integer read that moved the cursor and wrote into its mass
RecordsImmutableWitness ==
  /\ pc = "ready"
  /\ last.op = "read" /\ last.exc = "none"
  /\ _state.index = 1
  /\ heap[_state.mass] # heap[_sketches[1].plan]

\* the record list is the Builder's: under construction or just constructed
BuilderSequence == pc = "building" \/ (pc = "ready" /\ last.op = "init")

\* C10: in a sequence produced by the Builder the points of records 1..n are
\* pairwise distinct, none is a diagonal point and none is the sentinel (0,0).
Distinctness ==
  BuilderSequence =>
    \A j, k \in 2..Len(_sketches) :
      /\ j # k => _sketches[j].point # _sketches[k].point
      /\ ~isdiagonalpoint(_sketches[k].point)
      /\ _sketches[k].point # diagonal

\* a constructed sequence with two off-diagonal records
DistinctnessWitness ==
  /\ pc = "ready"
  /\ last.op = "init"
  /\ Len(_sketches) >= 3

\* the members of range(start, stop, step) in closed form, step # 0
RangeIndices(start, stop, step) ==
  LET len == IF step > 0
             THEN (IF start >= stop THEN 0 ELSE (stop - start + step - 1) \div step)
             ELSE (IF start <= stop THEN 0 ELSE (start - stop - step - 1) \div (0 - step))
  IN  [j \in 1..len |-> start + (j - 1) * step]

\* the step is a slice read with explicit start, stop and step
ExplicitSliceRead ==
  /\ nops' = nops + 1
  /\ last'.op = "slice"
  /\ \A k \in 1..3 : last'.arg[k] # None
  /\ last'.arg[3][1] # 0

\* C11: a slice read with explicit start, stop and step leaves the cursor's
\* index and cumulative mass unchanged, and when the indices of
\* range(start, stop, step) all lie in [0, n] it yields exactly the raw
\* records at those indices, in that order.
SliceBypassesCursor ==
  [][ExplicitSliceRead =>
       LET indices == RangeIndices(last'.arg[1][1], last'.arg[2][1], last'.arg[3][1])
       IN  /\ _state' = _state
           /\ heap'[_state'.mass] = heap[_state.mass]
           /\ _sketches' = _sketches
           /\ (\A j \in 1..Len(indices) : indices[j] \in 0..(Len(_sketches) - 1))
                => /\ last'.exc = "none"
                   /\ last'.val = [j \in 1..Len(indices) |-> _sketches[indices[j] + 1]]]_vars

\* a backward slice that yielded records 1 and 0 while the cursor stood at
\* index 1
SliceWitness ==
  /\ pc = "ready"
  /\ last.op = "slice" /\ last.exc = "none"
  /\ last.arg = <<Some(1), Some(-1), Some(-1)>>
  /\ last.val = <<_sketches[2], _sketches[1]>>
  /\ _state.index = 1
  /\ heap[_state.mass] # heap[_sketches[1].plan]

\* the cursor was just reset: construction, savetofile or loadfromfile returned
FreshCursor == pc = "ready" /\ last.op \in {"init", "save", "load"} /\ last.exc = "none"

\* the step is an integer read with an index in [0, n] not below the cursor's
ForwardRead == InRangeRead /\ last'.arg[1] >= _state.index

\* the records R0, R1, R2 of the three-record scenario, P1 = (0,1) and
\* P2 = (0,2), with a freshly reset cursor: dict objects 1..3 are the plans
\* and 4 is the cursor's mass
ScenarioRecords ==
  << [point |-> diagonal, parent |-> None, plan |-> 1],
     [point |-> PDPoint(0, 1), parent |-> Some(0), plan |-> 2],
     [point |-> PDPoint(0, 2), parent |-> Some(1), plan |-> 3] >>

ScenarioHeap ==
  << (diagonal :> 10),
     (PDPoint(0, 1) :> 3) @@ (diagonal :> -3),
     (PDPoint(0, 2) :> 2) @@ (PDPoint(0, 1) :> -1),
     (diagonal :> 10) >>

\* the cumulative masses read at indices 0, 1, 2 in that order
ScenarioForwardScan ==
  LET r0 == GetItem(ScenarioRecords, [index |-> 0, mass |-> 4], ScenarioHeap, 0)
      r1 == GetItem(ScenarioRecords, r0.st, r0.heap, 1)
      r2 == GetItem(ScenarioRecords, r1.st, r1.heap, 2)
  IN  /\ r0.exc = "none" /\ r0.heap[r0.st.mass] = (diagonal :> 10)
      /\ r1.exc = "none" /\ r1.heap[r1.st.mass] = (diagonal :> 7) @@ (PDPoint(0, 1) :> 3)
      /\ r2.exc = "none"
      /\ r2.heap[r2.st.mass] = (diagonal :> 7) @@ (PDPoint(0, 1) :> 2) @@ (PDPoint(0, 2) :> 2)

\* C12: a freshly reset cursor holds deltaPlan(0) at index 0, and an integer
\* read with an index in [0, n] not below the cursor's, made while the cursor
\* holds the sum of deltaPlan(0..currentIndex), returns the pointwise sum of
\* deltaPlan(0..index) and leaves the cursor holding it, so every read of a
\* non-decreasing sequence returns that sum; on the three-record scenario the
\* reads at 0, 1, 2 return {diagonal: 10}, {diagonal: 7, P1: 3} and
\* {diagonal: 7, P1: 2, P2: 2}.
ForwardScan ==
  /\ [](FreshCursor => CursorInv)
  /\ [](pc = "ready" => ScenarioForwardScan)
  /\ [][(ForwardRead /\ CursorInv)
         => /\ last'.exc = "none"
            /\ _state'.index = last'.arg[1]
            /\ held' = Some(_state'.mass)
            /\ CursorInv']_vars

\* the second of two forward reads reached record 2, whose plan moved mass
\* onto its point
ForwardScanWitness ==
  /\ pc = "ready"
  /\ nops = 2
  /\ last = Call("read", Some(2), "none", None)
  /\ Len(_sketches) = 3
  /\ _state.index = 2
  /\ held = Some(_state.mass)
  /\ Get(heap[held[1]], _sketches[3].point) = 1
  /\ CursorInv

\* the step is an integer read one index below the cursor's, the cursor
\* standing at an index in [1, n]
BackwardStep ==
  /\ nops' = nops + 1
  /\ last'.op = "read"
  /\ _state.index \in 1..(Len(_sketches) - 1)
  /\ last'.arg[1] = _state.index - 1

\* C13: retreating the cursor from index i to i-1 (1 <= i <= n) sets the index
\* to i-1 and subtracts from the cumulative mass the deltaPlan of record i-1,
\* the destination, key by key; the keys of the mass are the ones it had and
\* the ones of that plan.
BackwardSubtractsDestination ==
  [][BackwardStep =>
       LET dest == heap[_sketches[_state.index].plan]
       IN  /\ last'.exc = "none"
           /\ _state'.index = _state.index - 1
           /\ DOMAIN heap'[_state'.mass] = DOMAIN heap[_state.mass] \cup DOMAIN dest
           /\ \A p \in DOMAIN heap'[_state'.mass] :
                heap'[_state'.mass][p] = Get(heap[_state.mass], p) - Get(dest, p)]_vars

\* sketch[1] then sketch[0] on two records: what is left at index 0 is the
\* plan of record 1, which is not what subtracting record 1 would leave
BackwardWitness ==
  /\ pc = "ready"
  /\ nops = 2
  /\ last = Call("read", Some(0), "none", None)
  /\ Len(_sketches) = 2
  /\ _state.index = 0
  /\ heap[_sketches[2].plan] # EmptyDict
  /\ \A p \in Points : Get(heap[_state.mass], p) = Get(heap[_sketches[2].plan], p)
  /\ \E p \in Points : Get(heap[_state.mass], p) # Get(heap[_sketches[1].plan], p)

\* what a step plan contributes to point p once every diagonal key is mapped
\* to the sentinel
DiagMapped(plan, p) ==
  IF p = diagonal
  THEN SumOver(plan, {q \in DOMAIN plan : isdiagonalpoint(q)})
  ELSE IF isdiagonalpoint(p) THEN 0 ELSE Get(plan, p)

\* the sum over the positions js of the pulled steps g of DiagMapped(., p)
RECURSIVE SumSteps(_, _, _)
SumSteps(g, js, p) ==
  IF js = {} THEN 0
  ELSE LET j == CHOOSE x \in js : TRUE
       IN  DiagMapped(g[j][3], p) + SumSteps(g, js \ {j}, p)

\* the number of the steps before position j that became records: the first
\* step and every off-diagonal pick
AcceptedBefore(g, j) ==
  Cardinality({m \in 1..(j - 1) : m = 1 \/ ~isdiagonalpoint(g[m][1])})

\* the Builder finishes: __init__ returns
BuilderFinishes == pc = "building" /\ pc' = "ready"

\* C14: when the Builder finishes, the deltaPlans of the emitted records sum
\* pointwise to the pre-charge on the sentinel plus the sum of every pulled
\* step plan with its diagonal keys mapped to the sentinel, and each record's
\* deltaPlan is the sum of the plans of the step that became it and of the
\* skipped steps pulled since the record before it (plus the pre-charge for
\* record 0), so a skipped step's mass is in the next record and in no other.
CoalescingLosesNoMass ==
  [][BuilderFinishes =>
       \A p \in Points :
         /\ SumPlans(_sketches', heap', Len(_sketches'), p)
              = (IF p = diagonal THEN Precharge(D) ELSE 0) + SumSteps(gen, 1..Len(gen), p)
         /\ \A k \in 1..Len(_sketches') :
              Get(heap'[_sketches'[k].plan], p)
                = (IF k = 1 /\ p = diagonal THEN Precharge(D) ELSE 0)
                  + SumSteps(gen, {j \in 1..Len(gen) : AcceptedBefore(gen, j) = k - 1}, p)]_vars

\* the loop has emitted its last record after it skipped a diagonal pick that
\* moved mass
CoalescingWitness ==
  /\ pc = "building"
  /\ i > n
  /\ Len(_sketches) >= 2
  /\ \E j \in 2..(Len(gen) - 1) : isdiagonalpoint(gen[j][1]) /\ gen[j][3] # EmptyDict

\* the off-diagonal picks the generator yielded after its first step
OffDiagonalPicks(g) == SelectSeq(Tail(g), LAMBDA step : ~isdiagonalpoint(step[1]))

\* the generator has at least n off-diagonal picks to yield after its first
\* step: it yields every point of D, the seed first
EnoughPicks ==
  /\ n >= 1
  /\ Cardinality({k \in 1..(Len(D) - 1) : ~isdiagonalpoint(D[k])}) >= n

\* C15: for n >= 1 and a generator with at least n off-diagonal picks after
\* its first step, the Builder never runs the generator dry and terminates;
\* when it finishes it has exactly n+1 records, record 0 being the first step
\* and records 1..n the off-diagonal picks in generator order, and the last
\* step it pulled is the one that became record n.
BuilderLength ==
  /\ []((pc # "new" /\ EnoughPicks) => pc # "failed")
  /\ ((pc = "building" /\ EnoughPicks) ~> (pc = "ready"))
  /\ [][(BuilderFinishes /\ n >= 1) =>
          LET picks == OffDiagonalPicks(gen)
          IN  /\ Len(_sketches') = n + 1
              /\ _sketches'[1].point = gen[1][1]
              /\ _sketches'[1].parent = gen[1][2]
              /\ Len(picks) = n
              /\ \A k \in 1..n : /\ _sketches'[k + 1].point = picks[k][1]
                                 /\ _sketches'[k + 1].parent = picks[k][2]
              /\ gen[Len(gen)] = picks[n]]_vars

\* the loop has ended with n+1 = 2 records after it pulled three steps, one
\* of them a skipped diagonal pick
BuilderLengthWitness ==
  /\ pc = "building"
  /\ ~Loops(i, n)
  /\ n = 1
  /\ Len(_sketches) = 2
  /\ Len(gen) = 3
  /\ isdiagonalpoint(gen[2][1])

\* C16: before the first step is pulled the sentinel's mass is -floor(|D|/2),
\* for even and for odd |D|.
PrechargeIsMinusFloor ==
  (pc = "building" /\ gen = <<>>) => mass = (diagonal :> (0 - (Len(D) \div 2)))

\* the generator cannot yield n off-diagonal picks after its first step
TooFewPicks == Cardinality({k \in 1..(Len(D) - 1) : ~isdiagonalpoint(D[k])}) < n

\* C17: when the generator is exhausted while the loop still wants a step,
\* construction ends with the generator's StopIteration and the caller gets
\* no object; a Builder whose generator has too few picks always ends so,
\* and a Builder that returns has n+1 records.
ExhaustionFails ==
  /\ [][(pc = "building" /\ Loops(i, n) /\ Len(gen) = Len(D))
         => (pc' = "failed" /\ last'.exc = "StopIteration" /\ _sketches' = <<>>)]_vars
  /\ ((pc = "building" /\ TooFewPicks) ~> (pc = "failed"))
  /\ [][BuilderFinishes => (~TooFewPicks /\ Len(_sketches') = n + 1)]_vars

\* construction failed on the exhausted generator after two steps had been
\* accepted
ExhaustionWitness ==
  /\ pc = "failed"
  /\ last.op = "init" /\ last.exc = "StopIteration"
  /\ i = 2
  /\ Len(gen) = Len(D)
  /\ _sketches = <<>>

\* the step is an integer read with an index in [0, n] made while the cursor's
\* index is in [0, n]
NavigationRead == InRangeRead /\ _state.index \in 0..(Len(_sketches) - 1)

\* C18: read(t) with t in [0, n] from a cursor index c in [0, n] calls
\* _updateState exactly |t - c| times, the k-th call leaving the index k
\* places from c toward t, and ends with the index at t; read(c) makes no
\* call and leaves the cursor's index and mass as they were.
NavigationTerminates ==
  [][NavigationRead =>
       LET c == _state.index
           t == last'.arg[1]
           path == GetItem(_sketches, _state, heap, t).path
       IN  /\ last'.exc = "none"
           /\ _state'.index = t
           /\ Len(path) = (IF t >= c THEN t - c ELSE c - t)
           /\ \A k \in 1..Len(path) : path[k] = (IF t >= c THEN c + k ELSE c - k)
           /\ (t = c) => (_state' = _state /\ heap'[_state'.mass] = heap[_state.mass])]_vars

\* the first read went from index 0 to index 2, two steps
NavigationWitness ==
  /\ pc = "ready"
  /\ nops = 1
  /\ last = Call("read", Some(2), "none", None)
  /\ _state.index = 2
  /\ Len(_sketches) = 3

\* C19: the cursor's index of a usable object is always in [0, n], and an
\* integer read that fails leaves the cursor's index and cumulative mass as
\* they were before it.
FailedReadLeavesCursor ==
  /\ []((pc = "ready" /\ _sketches # <<>>) => _state.index \in 0..(Len(_sketches) - 1))
  /\ [][(nops' = nops + 1 /\ last'.op = "read" /\ last'.exc # "none")
         => (/\ _state'.index = _state.index
             /\ heap'[_state'.mass] = heap[_state.mass])]_vars

\* the step is a call that moves or resets the cursor while the caller holds
\* the mapping of an earlier read
MovesCursorWhileHeld ==
  /\ nops' = nops + 1
  /\ held # None
  /\ held[1] \in DOMAIN heap'
  /\ \/ NavigationRead /\ last'.arg[1] # _state.index
     \/ last'.op \in {"save", "load"}

\* C20: the mapping a caller obtained from read(i) keeps its contents when
\* the cursor is moved by a later read(j), j # i, by savetofile or by
\* loadfromfile.
ReturnedMappingStable ==
  [][MovesCursorWhileHeld => heap'[held[1]] = heap[held[1]]]_vars

====
